---- MODULE Spec2Model ----
(***************************************************************************)
(* Model of scripts/compress_images.py: main, get_image_files,             *)
(* compress_images_concurrent (the coordinator and its thread pool) and    *)
(* compress_image (one task, one step per file-system or lock call).       *)
(*                                                                         *)
(* The image library is an external collaborator.  A file's content is a   *)
(* record [id, size, esize, kind, enc]: size is its byte size, esize the   *)
(* byte size of its re-encoding at the run's quality and bounds, kind says *)
(* whether the library decodes and encodes it, enc whether the bytes are   *)
(* the output of an encode.  The codec is a function of the content, so a  *)
(* run's only nondeterminism is scheduling, the directory listing order    *)
(* and what a failed save leaves behind.                                   *)
(***************************************************************************)
EXTENDS Integers, Sequences, FiniteSets, TLC

\* ---------------------------------------------------------------- bounds
\* The byte size of the image a.jpg; its re-encoding has 1..MaxSize+1 bytes.
MaxSize == 3
\* Largest value of --workers.
MaxWorkers == 2

\* Values of --min-compression tried (percent): negative, the default, positive.
MinCompressionChoices == {-50, 0, 40}

\* ----------------------------------------------------------------- paths
\* A path is the sequence of its components, relative to the working
\* directory; ".." is a component like any other until the file system
\* resolves it.

\* os.path.dirname / os.path.basename
DirName(p) == SubSeq(p, 1, Len(p) - 1)
BaseName(p) == p[Len(p)]

\* The path the operating system reaches: ".." steps to the parent.
RECURSIVE Resolve(_)
Resolve(p) ==
  IF p = <<>> THEN <<>>
  ELSE LET r == Resolve(DirName(p))
       IN IF BaseName(p) = ".."
          THEN (IF r = <<>> THEN <<>> ELSE DirName(r))
          ELSE Append(r, BaseName(p))

\* Length of the longest common prefix of two paths.
RECURSIVE CommonLen(_, _)
CommonLen(p, q) ==
  IF p = <<>> \/ q = <<>> \/ Head(p) # Head(q) THEN 0
  ELSE 1 + CommonLen(Tail(p), Tail(q))

\* os.path.relpath(p, start): one ".." for each component of start below
\* the common prefix, then the rest of p.
RelPath(p, start) ==
  LET k == CommonLen(p, start)
  IN [i \in 1..(Len(start) - k) |-> ".."] \o SubSeq(p, k + 1, Len(p))

\* os.path.join of a directory and a relative path.
Join(d, rel) == d \o rel

\* The directories os.makedirs(d, exist_ok=True) makes sure exist.
MakeDirs(d) == {SubSeq(Resolve(d), 1, k) : k \in 1..Len(Resolve(d))}

\* Path(file).suffix for the file names of the model.
Suffix(name) ==
  CASE name = "a.jpg" -> ".jpg"
    [] name = "b.PNG" -> ".PNG"
    [] name = "n.txt" -> ".txt"
    [] OTHER -> ""

\* Lower comparing the suffix as it is spelled (line 99 without .lower()).
Lower_AsSpelled(s) == s
\* str.lower for the suffixes of the model.
Lower(s) == IF s = ".PNG" THEN ".png" ELSE s

image_extensions == {".jpg", ".jpeg", ".png", ".bmp", ".tiff", ".webp"}

\* The test of line 99.
IsImageName(name) == Lower(Suffix(name)) \in image_extensions

\* -------------------------------------------------------------- contents
Good(i, s, e) == [id |-> i, size |-> s, esize |-> e, kind |-> "ok", enc |-> FALSE]
\* A file the library cannot decode, and one it decodes but cannot encode.
Undecodable(i) == [id |-> i, size |-> 1, esize |-> 1, kind |-> "nodecode", enc |-> FALSE]
Unencodable(i) == [id |-> i, size |-> 2, esize |-> 1, kind |-> "noencode", enc |-> FALSE]
\* What a save that failed after opening its destination leaves there.
Truncated == [id |-> 0, size |-> 0, esize |-> 0, kind |-> "nodecode", enc |-> FALSE]
\* A file that is no image (never opened: its name is filtered out).
Notes == [id |-> 9, size |-> 1, esize |-> 1, kind |-> "nodecode", enc |-> FALSE]

\* The bytes img.save writes for an image decoded from content c.
Encoded(c) == [c EXCEPT !.size = c.esize, !.enc = TRUE]

\* A file system: the function from the paths of its files to their content.
WriteFile(f, p, c) == [q \in (DOMAIN f) \cup {p} |-> IF q = p THEN c ELSE f[q]]
RemoveFile(f, p) == [q \in (DOMAIN f) \ {p} |-> f[q]]
\* The directories that hold the files of f.
DirsOf(f) == UNION {MakeDirs(DirName(p)) : p \in DOMAIN f}

\* ---------------------------------------------------------------- ratios
\* compression_ratio = (1 - compressed/original) * 100 is kept exact, as the
\* fraction num/den with den > 0; the literal 0 of lines 73 and 90 is 0/1.
ZeroRatio == [num |-> 0, den |-> 1]
CompressionRatio(original, compressed) ==
  IF compressed = original THEN ZeroRatio
  ELSE [num |-> (original - compressed) * 100, den |-> original]
\* ratio <= pct, ratio > 0, ratio == 0
RatioLeq(r, pct) == r.num <= pct * r.den
RatioPositive(r) == r.num > 0
RatioIsZero(r) == r.num = 0

\* Line 54: the compression is rejected and the original kept.
Rejected(ratio, min_compression_ratio) == RatioLeq(ratio, min_compression_ratio)


\* --------------------------------------------------------- file discovery
\* Every order in which a finite set can be listed.
Orders(S) ==
  {s \in [1..Cardinality(S) -> S] : \A i, j \in DOMAIN s : i # j => s[i] # s[j]}

FilesIn(f, d) == {p \in DOMAIN f : DirName(p) = d}
SubDirs(ds, d) == {x \in ds : x # <<>> /\ DirName(x) = d}

\* get_image_files: os.walk visits a directory's files, then its
\* sub-directories, each in the order the operating system lists them; the
\* result is the set of the sequences the walk can return.
RECURSIVE get_image_files(_, _, _)
RECURSIVE WalkDirs(_, _, _)
WalkDirs(f, ds, subdirs) ==
  IF subdirs = <<>> THEN {<<>>}
  ELSE {a \o b : a \in get_image_files(f, ds, Head(subdirs)),
                 b \in WalkDirs(f, ds, Tail(subdirs))}
get_image_files(f, ds, directory) ==
  {files \o rest :
     files \in Orders({p \in FilesIn(f, directory) : IsImageName(BaseName(p))}),
     rest \in UNION {WalkDirs(f, ds, o) : o \in Orders(SubDirs(ds, directory))}}

\* ------------------------------------------------------------------ state
VARIABLES
  args,                  \* the parsed command line
  fs, dirs,              \* the files (path -> content) and the directories
  fs0, dirs0,            \* the file system as it was before the run
  main_pc, exit_code,    \* main's position; the exit code (-1: running)
  image_files,           \* main: the discovered files
  future_to_path,        \* coordinator: task -> (image_path, output_path)
  tasks,                 \* per task: its position and locals in compress_image
  print_lock,            \* 0 when free, else the task holding it
  collected,             \* the futures as_completed has yielded
  results, total_original_size, total_compressed_size,
  summary                \* the counts main prints at the end

vars == <<args, fs, dirs, fs0, dirs0, main_pc, exit_code, image_files,
          future_to_path, tasks, print_lock, collected, results,
          total_original_size, total_compressed_size, summary>>

\* ------------------------------------------------------------------- Init
Images == <<"images">>
\* The byte size of a.jpg, and the byte sizes its re-encoding can have:
\* smaller by more or by less than the positive threshold, equal, larger.
Sizes == {MaxSize}
EncodedSizes == 1..(MaxSize + 1)

\* The tree under images/: a.jpg, perhaps a b.PNG the library rejects,
\* a text file, perhaps an a.jpg left in images/compressed by an earlier run.
ImagesWorlds ==
  {[p \in {<<"images", "a.jpg">>, <<"images", "n.txt">>} \cup extra |->
      CASE p = <<"images", "a.jpg">> -> Good(1, s, e)
        [] p = <<"images", "n.txt">> -> Notes
        [] p = <<"images", "b.PNG">> -> b
        [] OTHER -> Good(3, 2, 2)] :
     s \in Sizes, e \in EncodedSizes, b \in {Undecodable(2), Unencodable(2)},
     extra \in SUBSET {<<"images", "b.PNG">>, <<"images", "compressed", "a.jpg">>}}

\* The tree under photos/: one image.
PhotosWorlds ==
  {[p \in {<<"photos", "a.jpg">>} |-> Good(1, s, e)] : s \in Sizes, e \in EncodedSizes}

DefaultArgs ==
  [input |-> Images, output |-> <<"images", "compressed">>, overwrite |-> FALSE,
   workers |-> 1, min_compression |-> 0]

\* The command lines tried on a tree: the defaults of lines 160-175 on
\* images/, --input photos --output out on photos/, and an input directory
\* that does not exist.
ArgsFor(f) ==
  {[DefaultArgs EXCEPT !.input = io[1], !.output = io[2], !.overwrite = ow,
                       !.workers = w, !.min_compression = m] :
     io \in (IF <<"images", "a.jpg">> \in DOMAIN f
             THEN {<<Images, <<"images", "compressed">>>>,
                   <<<<"missing">>, <<"out">>>>}
             ELSE {<<<<"photos">>, <<"out">>>>}),
     ow \in BOOLEAN, w \in 1..MaxWorkers, m \in MinCompressionChoices}

NoSummary ==
  [total_count |-> 0, success_count |-> 0, compressed_files |-> 0,
   skipped_files |-> 0, total_original_size |-> 0, total_compressed_size |-> 0]

Init ==
  /\ fs \in ImagesWorlds \cup PhotosWorlds
  /\ args \in ArgsFor(fs)
  /\ dirs = DirsOf(fs)
  /\ fs0 = fs
  /\ dirs0 = dirs
  /\ main_pc = "check"
  /\ exit_code = -1
  /\ image_files = <<>>
  /\ future_to_path = <<>>
  /\ tasks = <<>>
  /\ print_lock = 0
  /\ collected = {}
  /\ results = <<>>
  /\ total_original_size = 0
  /\ total_compressed_size = 0
  /\ summary = NoSummary

\* ------------------------------------------------------------------- main
\* os.path.exists
Exists(p) == Resolve(p) \in dirs \/ Resolve(p) \in DOMAIN fs

\* CheckInput with the output directory created before the test of the input
\* directory (lines 185-186 moved above line 180).
CheckInput_AfterMakeDirs ==
  /\ main_pc = "check"
  /\ dirs' = IF args.overwrite THEN dirs ELSE dirs \cup MakeDirs(args.output)
  /\ IF ~Exists(args.input)
     THEN main_pc' = "exit" /\ exit_code' = 1
     ELSE main_pc' = "mkout" /\ exit_code' = exit_code
  /\ UNCHANGED <<args, fs, fs0, dirs0, image_files, future_to_path, tasks,
                 print_lock, collected, results, total_original_size,
                 total_compressed_size, summary>>

\* Lines 180-182: a missing input directory ends the process with code 1.
CheckInput ==
  /\ main_pc = "check"
  /\ IF ~Exists(args.input)
     THEN main_pc' = "exit" /\ exit_code' = 1
     ELSE main_pc' = "mkout" /\ exit_code' = exit_code
  /\ UNCHANGED <<args, fs, dirs, fs0, dirs0, image_files, future_to_path, tasks,
                 print_lock, collected, results, total_original_size,
                 total_compressed_size, summary>>

\* Lines 185-186.
MakeOutputDir ==
  /\ main_pc = "mkout"
  /\ dirs' = IF args.overwrite THEN dirs ELSE dirs \cup MakeDirs(args.output)
  /\ main_pc' = "discover"
  /\ UNCHANGED <<args, fs, fs0, dirs0, exit_code, image_files, future_to_path,
                 tasks, print_lock, collected, results, total_original_size,
                 total_compressed_size, summary>>

\* Lines 189-193: discovery; no matching file ends the process with code 0.
Discover ==
  /\ main_pc = "discover"
  /\ \E files \in get_image_files(fs, dirs, args.input) :
       /\ image_files' = files
       /\ IF files = <<>>
          THEN main_pc' = "exit" /\ exit_code' = 0
          ELSE main_pc' = "submit" /\ exit_code' = exit_code
  /\ UNCHANGED <<args, fs, dirs, fs0, dirs0, future_to_path, tasks, print_lock,
                 collected, results, total_original_size, total_compressed_size,
                 summary>>


\* ------------------------------------------------------------ coordinator
Submitted == 1..Len(future_to_path)
image_path(t) == future_to_path[t][1]
output_path(t) == future_to_path[t][2]
\* The files a task's two paths name.
InFile(t) == Resolve(image_path(t))
OutFile(t) == Resolve(output_path(t))

\* Lines 130-134: the output path of one discovered file.
OutputPath(path, output_dir, overwrite) ==
  IF overwrite THEN path
  ELSE Join(output_dir, RelPath(path, <<"images">>))

\* A task as executor.submit queues it.  wrote and raised record what the
\* task has done: written its output path, raised an exception.
NoImage == Truncated
QueuedTask ==
  [pc |-> "queued", img |-> NoImage, original_file_size |-> 0,
   compressed_size |-> 0, wrote |-> FALSE, raised |-> FALSE,
   result |-> [success |-> FALSE, path |-> <<>>, original |-> 0, final |-> 0,
               ratio |-> ZeroRatio]]

\* Lines 129-138, one iteration: the output path, its directory, the submit.
Submit ==
  /\ main_pc = "submit"
  /\ LET path == image_files[Len(future_to_path) + 1]
         out == OutputPath(path, args.output, args.overwrite)
     IN /\ dirs' = IF args.overwrite THEN dirs ELSE dirs \cup MakeDirs(DirName(out))
        /\ future_to_path' = Append(future_to_path, <<path, out>>)
        /\ tasks' = Append(tasks, QueuedTask)
        /\ main_pc' = IF Len(future_to_path) + 1 = Len(image_files)
                      THEN "collect" ELSE "submit"
  /\ UNCHANGED <<args, fs, fs0, dirs0, exit_code, image_files, print_lock,
                 collected, results, total_original_size, total_compressed_size,
                 summary>>

\* Lines 144-150: the outcome the coordinator records for a future's result,
\* and what it adds to each total.
Recorded(path, r) ==
  IF r.success
  THEN [success |-> TRUE, path |-> path, original |-> r.original,
        final |-> r.final, ratio |-> r.ratio]
  ELSE [success |-> FALSE, path |-> path, original |-> 0, final |-> 0,
        ratio |-> ZeroRatio]
AddOriginal(total, r) == IF r.success THEN total + r.original ELSE total
\* AddCompressed adding the original size (line 148 repeating line 147).
AddCompressed_Original(total, r) == IF r.success THEN total + r.original ELSE total
AddCompressed(total, r) == IF r.success THEN total + r.final ELSE total

\* Collect without line 150: a failed outcome is dropped from results.
Collect_DropsFailed(t) ==
  /\ main_pc = "collect"
  /\ t \in Submitted \ collected
  /\ tasks[t].pc = "done"
  /\ collected' = collected \cup {t}
  /\ results' = IF tasks[t].result.success
                THEN Append(results, Recorded(image_path(t), tasks[t].result))
                ELSE results
  /\ total_original_size' = AddOriginal(total_original_size, tasks[t].result)
  /\ total_compressed_size' = AddCompressed(total_compressed_size, tasks[t].result)
  /\ UNCHANGED <<args, fs, dirs, fs0, dirs0, main_pc, exit_code, image_files,
                 future_to_path, tasks, print_lock, summary>>

\* Collect yielding a future whose task has its outcome but has not printed
\* its block yet (the block printed after the return value is handed over).
Collect_BeforePrinted(t) ==
  /\ main_pc = "collect"
  /\ t \in Submitted \ collected
  /\ tasks[t].pc \in {"ok_lock", "skip_lock", "fail_lock", "done"}
  /\ collected' = collected \cup {t}
  /\ results' = Append(results, Recorded(image_path(t), tasks[t].result))
  /\ total_original_size' = AddOriginal(total_original_size, tasks[t].result)
  /\ total_compressed_size' = AddCompressed(total_compressed_size, tasks[t].result)
  /\ UNCHANGED <<args, fs, dirs, fs0, dirs0, main_pc, exit_code, image_files,
                 future_to_path, tasks, print_lock, summary>>

\* Lines 141-150, one iteration: as_completed yields a finished future that
\* it has not yielded yet.  compress_image lets no exception out, so
\* future.result() never raises and lines 151-154 do not run.
Collect(t) ==
  /\ main_pc = "collect"
  /\ t \in Submitted \ collected
  /\ tasks[t].pc = "done"
  /\ collected' = collected \cup {t}
  /\ results' = Append(results, Recorded(image_path(t), tasks[t].result))
  /\ total_original_size' = AddOriginal(total_original_size, tasks[t].result)
  /\ total_compressed_size' = AddCompressed(total_compressed_size, tasks[t].result)
  /\ UNCHANGED <<args, fs, dirs, fs0, dirs0, main_pc, exit_code, image_files,
                 future_to_path, tasks, print_lock, summary>>

\* Line 156: every future has been yielded; the pool shuts down.
Return ==
  /\ main_pc = "collect"
  /\ collected = Submitted
  /\ main_pc' = "returned"
  /\ UNCHANGED <<args, fs, dirs, fs0, dirs0, exit_code, image_files,
                 future_to_path, tasks, print_lock, collected, results,
                 total_original_size, total_compressed_size, summary>>

\* Lines 214-219: the counts main takes over a results list.
SuccessCount(rs) == Cardinality({i \in DOMAIN rs : rs[i].success})
CompressedCount(rs) ==
  Cardinality({i \in DOMAIN rs : rs[i].success /\ RatioPositive(rs[i].ratio)})
SkippedCount(rs) ==
  Cardinality({i \in DOMAIN rs : rs[i].success /\ RatioIsZero(rs[i].ratio)})
SummaryOf(rs, original, compressed) ==
  [total_count |-> Len(rs),
   success_count |-> SuccessCount(rs),
   compressed_files |-> CompressedCount(rs),
   skipped_files |-> SkippedCount(rs),
   total_original_size |-> original,
   total_compressed_size |-> compressed]

\* Lines 214-226: the counts and totals of the final summary.
Summarize ==
  /\ main_pc = "returned"
  /\ summary' = SummaryOf(results, total_original_size, total_compressed_size)
  /\ main_pc' = "exit"
  /\ exit_code' = 0
  /\ UNCHANGED <<args, fs, dirs, fs0, dirs0, image_files, future_to_path, tasks,
                 print_lock, collected, results, total_original_size,
                 total_compressed_size>>


\* ---------------------------------------------------------- compress_image
\* The positions of a task that occupy a worker thread.
RunningPcs == {"open", "save", "size_in", "size_out", "remove", "copy",
               "ok_lock", "skip_lock", "fail_lock",
               "ok_print", "skip_print", "fail_print"}
Running == {t \in Submitted : tasks[t].pc \in RunningPcs}
Queued == {t \in Submitted : tasks[t].pc = "queued"}

\* Raise without the handler of line 87: the exception ends the task with
\* no outcome returned.
Raise_Uncaught(task) == [task EXCEPT !.pc = "crashed", !.raised = TRUE]

\* Lines 87-88: an exception anywhere in the body reaches the handler.
Raise(task) == [task EXCEPT !.pc = "fail_lock", !.raised = TRUE]

Outcome(success, path, original, final, ratio) ==
  [success |-> success, path |-> path, original |-> original, final |-> final,
   ratio |-> ratio]

\* A step of task t changes tasks[t] and perhaps the files.
TaskFrame ==
  UNCHANGED <<args, dirs, fs0, dirs0, main_pc, exit_code, image_files,
              future_to_path, collected, results, total_original_size,
              total_compressed_size, summary>>

\* The pool has a free thread: it takes the oldest queued task (line 126:
\* at most max_workers threads, one queue served in submission order).
\* PoolHasRoom of a pool that starts a thread for every submitted task.
PoolHasRoom_Unbounded == TRUE
PoolHasRoom == Cardinality(Running) < args.workers
Start(t) ==
  /\ t \in Queued
  /\ \A u \in Queued : t <= u
  /\ PoolHasRoom
  /\ tasks' = [tasks EXCEPT ![t].pc = "open"]
  /\ UNCHANGED <<fs, print_lock>>
  /\ TaskFrame

\* Lines 35-43: open and decode the input; the image is held in memory.
Open(t) ==
  /\ t \in Submitted /\ tasks[t].pc = "open"
  /\ tasks' = [tasks EXCEPT ![t] =
       IF InFile(t) \notin DOMAIN fs \/ fs[InFile(t)].kind = "nodecode"
       THEN Raise(@)
       ELSE [@ EXCEPT !.pc = "save", !.img = fs[InFile(t)]]]
  /\ UNCHANGED <<fs, print_lock>>
  /\ TaskFrame

\* Line 46: encode to the output path.  A failed save leaves the path as it
\* was (the error came before the file was opened, or the library removed
\* the file it had created) or leaves a truncated file there.
Save(t) ==
  /\ t \in Submitted /\ tasks[t].pc = "save"
  /\ IF tasks[t].img.kind = "noencode"
     THEN /\ fs' \in {fs, WriteFile(fs, OutFile(t), Truncated)}
          /\ tasks' = [tasks EXCEPT ![t] = [Raise(@) EXCEPT !.wrote = (fs' # fs)]]
     ELSE /\ tasks' = [tasks EXCEPT ![t].pc = "size_in", ![t].wrote = TRUE]
          /\ fs' = WriteFile(fs, OutFile(t), Encoded(tasks[t].img))
  /\ UNCHANGED print_lock
  /\ TaskFrame

\* Line 49: os.path.getsize(input_path).
SizeIn(t) ==
  /\ t \in Submitted /\ tasks[t].pc = "size_in"
  /\ tasks' = [tasks EXCEPT ![t] =
       IF InFile(t) \notin DOMAIN fs THEN Raise(@)
       ELSE [@ EXCEPT !.pc = "size_out", !.original_file_size = fs[InFile(t)].size]]
  /\ UNCHANGED <<fs, print_lock>>
  /\ TaskFrame

\* Lines 50-54: os.path.getsize(output_path), the ratio (a division by the
\* original size) and the threshold test.
SizeOut(t) ==
  /\ t \in Submitted /\ tasks[t].pc = "size_out"
  /\ LET k == tasks[t]
         c == fs[OutFile(t)].size
     IN tasks' = [tasks EXCEPT ![t] =
          IF OutFile(t) \notin DOMAIN fs \/ k.original_file_size = 0 THEN Raise(k)
          ELSE [k EXCEPT !.compressed_size = c,
                         !.pc = IF Rejected(CompressionRatio(k.original_file_size, c),
                                            args.min_compression)
                                THEN "remove" ELSE "ok_lock"]]
  /\ UNCHANGED <<fs, print_lock>>
  /\ TaskFrame

\* Line 56: os.remove(output_path).
Remove(t) ==
  /\ t \in Submitted /\ tasks[t].pc = "remove"
  /\ IF OutFile(t) \notin DOMAIN fs
     THEN tasks' = [tasks EXCEPT ![t] = Raise(@)] /\ fs' = fs
     ELSE tasks' = [tasks EXCEPT ![t].pc = "copy"] /\ fs' = RemoveFile(fs, OutFile(t))
  /\ UNCHANGED print_lock
  /\ TaskFrame

\* Line 57: shutil.copy2(input_path, output_path).
Copy(t) ==
  /\ t \in Submitted /\ tasks[t].pc = "copy"
  /\ IF InFile(t) \notin DOMAIN fs
     THEN tasks' = [tasks EXCEPT ![t] = Raise(@)] /\ fs' = fs
     ELSE /\ tasks' = [tasks EXCEPT ![t].pc = "skip_lock"]
          /\ fs' = WriteFile(fs, OutFile(t), fs[InFile(t)])
  /\ UNCHANGED print_lock
  /\ TaskFrame

\* LockFree without the lock: a print block is entered at once.
LockFree_Unguarded == TRUE

\* Lines 59, 76 and 88: `with print_lock` waits until the lock is free.
LockFree == print_lock = 0
PrintPc(pc) ==
  CASE pc = "ok_lock" -> "ok_print"
    [] pc = "skip_lock" -> "skip_print"
    [] pc = "fail_lock" -> "fail_print"
Acquire(t) ==
  /\ t \in Submitted /\ tasks[t].pc \in {"ok_lock", "skip_lock", "fail_lock"}
  /\ LockFree
  /\ print_lock' = t
  /\ tasks' = [tasks EXCEPT ![t].pc = PrintPc(@)]
  /\ UNCHANGED fs
  /\ TaskFrame

\* ResultOf reporting the size of the discarded encoding in the rejected
\* branch (line 73 returning compressed_size as the final size).
ResultOf_SkipReportsEncoded(t) ==
  LET k == tasks[t]
  IN CASE k.pc = "skip_print" ->
            Outcome(TRUE, image_path(t), k.original_file_size, k.compressed_size,
                    ZeroRatio)
       [] k.pc = "ok_print" ->
            Outcome(TRUE, image_path(t), k.original_file_size, k.compressed_size,
                    CompressionRatio(k.original_file_size, k.compressed_size))
       [] OTHER -> Outcome(FALSE, image_path(t), 0, 0, ZeroRatio)

\* Lines 73, 85 and 90: the tuple compress_image returns.
ResultOf(t) ==
  LET k == tasks[t]
  IN CASE k.pc = "skip_print" ->
            Outcome(TRUE, image_path(t), k.original_file_size, k.original_file_size,
                    ZeroRatio)
       [] k.pc = "ok_print" ->
            Outcome(TRUE, image_path(t), k.original_file_size, k.compressed_size,
                    CompressionRatio(k.original_file_size, k.compressed_size))
       [] OTHER -> Outcome(FALSE, image_path(t), 0, 0, ZeroRatio)

\* PrintAndReturn with the lock never released (acquire() with no release()
\* in place of `with print_lock`).
PrintAndReturn_KeepsLock(t) ==
  /\ t \in Submitted /\ tasks[t].pc \in {"ok_print", "skip_print", "fail_print"}
  /\ tasks' = [tasks EXCEPT ![t].pc = "done", ![t].result = ResultOf(t)]
  /\ UNCHANGED <<fs, print_lock>>
  /\ TaskFrame

\* Lines 60-73, 77-85 and 89-90: the block is printed, the lock released and
\* the outcome returned; the future is done.
PrintAndReturn(t) ==
  /\ t \in Submitted /\ tasks[t].pc \in {"ok_print", "skip_print", "fail_print"}
  /\ print_lock' = 0
  /\ tasks' = [tasks EXCEPT ![t].pc = "done", ![t].result = ResultOf(t)]
  /\ UNCHANGED fs
  /\ TaskFrame

\* ------------------------------------------------------------------- Next
\* The tasks: one per discovered file.
TaskIds == DOMAIN image_files

Next ==
  \/ CheckInput
  \/ MakeOutputDir
  \/ Discover
  \/ Submit
  \/ \E t \in TaskIds : Start(t)
  \/ \E t \in TaskIds : Open(t)
  \/ \E t \in TaskIds : Save(t)
  \/ \E t \in TaskIds : SizeIn(t)
  \/ \E t \in TaskIds : SizeOut(t)
  \/ \E t \in TaskIds : Remove(t)
  \/ \E t \in TaskIds : Copy(t)
  \/ \E t \in TaskIds : Acquire(t)
  \/ \E t \in TaskIds : PrintAndReturn(t)
  \/ \E t \in TaskIds : Collect(t)
  \/ Return
  \/ Summarize

Spec == Init /\ [][Next]_vars

\* The run with every thread scheduled: a thread that can take a step (a
\* library or file-system call that returns or raises, a lock that is free)
\* eventually takes one.  Every step moves some thread forward and none is
\* ever undone, so weak fairness of Next is all the scheduling gives.
\* The runs checked for progress take the default --min-compression (line
\* 174); the other arguments and the trees are those of Init.
FairInit == Init /\ args.min_compression = DefaultArgs.min_compression
FairSpec == FairInit /\ [][Next]_vars /\ WF_vars(Next)


\* ------------------------------------------------- the sequential reference
\* compress_image run alone on file system f, as one function: the set of
\* the (file system, outcome) pairs the call can end with (lines 34-90).
RunTask(f, path, out, min_compression_ratio) ==
  LET i == Resolve(path)
      o == Resolve(out)
      failed == Outcome(FALSE, path, 0, 0, ZeroRatio)
  IN IF i \notin DOMAIN f \/ f[i].kind = "nodecode"
     THEN {[fs |-> f, result |-> failed]}
     ELSE IF f[i].kind = "noencode"
     THEN {[fs |-> g, result |-> failed] : g \in {f, WriteFile(f, o, Truncated)}}
     ELSE LET saved == WriteFile(f, o, Encoded(f[i]))
              original == saved[i].size
              compressed == saved[o].size
              removed == RemoveFile(saved, o)
          IN IF original = 0
             THEN {[fs |-> saved, result |-> failed]}
             ELSE IF ~Rejected(CompressionRatio(original, compressed),
                               min_compression_ratio)
             THEN {[fs |-> saved,
                    result |-> Outcome(TRUE, path, original, compressed,
                                       CompressionRatio(original, compressed))]}
             ELSE IF i \notin DOMAIN removed
             THEN {[fs |-> removed, result |-> failed]}
             ELSE {[fs |-> WriteFile(removed, o, removed[i]),
                    result |-> Outcome(TRUE, path, original, original, ZeroRatio)]}

\* compress_images_concurrent with the tasks run one after the other in
\* submission order, as a pool of one worker runs them: the set of the
\* (file system, results, totals) it can end with after the first n files.
RECURSIVE SequentialRuns(_, _, _, _)
SequentialRuns(f, files, a, n) ==
  IF n = 0
  THEN {[fs |-> f, results |-> <<>>, original |-> 0, compressed |-> 0]}
  ELSE UNION {
         {[fs |-> r.fs,
           results |-> Append(before.results, Recorded(files[n], r.result)),
           original |-> AddOriginal(before.original, r.result),
           compressed |-> AddCompressed(before.compressed, r.result)] :
            r \in RunTask(before.fs, files[n],
                          OutputPath(files[n], a.output, a.overwrite),
                          a.min_compression)} :
         before \in SequentialRuns(f, files, a, n - 1)}

SequentialSummaries(f, files, a) ==
  {SummaryOf(r.results, r.original, r.compressed) :
     r \in SequentialRuns(f, files, a, Len(files))}

\* ----------------------------------------------------------------- claims
Done(t) == t \in Submitted /\ tasks[t].pc = "done"
\* The outcomes the coordinator holds for a path.
OutcomesFor(path) == {j \in DOMAIN results : results[j].path = path}
InputExisted == Resolve(args.input) \in dirs0
\* A task that returned success after the threshold rejected its ratio.
RejectedBy(t) ==
  /\ Done(t)
  /\ tasks[t].result.success
  /\ Rejected(CompressionRatio(tasks[t].original_file_size, tasks[t].compressed_size),
              args.min_compression)

\* C1: when compress_images_concurrent returns, results holds exactly one
\* outcome per discovered file: as many outcomes as files, each path once.
C1_OneOutcomePerFile ==
  main_pc = "returned" =>
    /\ Len(results) = Len(image_files)
    /\ \A i \in DOMAIN image_files : Cardinality(OutcomesFor(image_files[i])) = 1

\* C1 witness: three files, two workers, collected out of submission order.
C1_Witness ==
  /\ main_pc = "returned"
  /\ Len(image_files) = 3
  /\ args.workers = 2
  /\ results[1].path # image_files[1]

\* C2: a successful outcome whose ratio the threshold rejected reports final
\* size = original size and ratio 0, and from the task's completion on the
\* output file is byte-identical to the input file as it was before the run.
C2_RejectedKeepsOriginal ==
  \A t \in Submitted :
    RejectedBy(t) =>
      /\ tasks[t].result.final = tasks[t].result.original
      /\ RatioIsZero(tasks[t].result.ratio)
      /\ OutFile(t) \in DOMAIN fs
      /\ fs[OutFile(t)] = fs0[InFile(t)]

\* C3: after a task has completed, with any outcome and in either mode, a
\* file exists at its output path and holds the re-encoded bytes or a
\* verbatim copy of the original input bytes.
C3_OneOutputFilePerTask ==
  \A t \in Submitted :
    Done(t) =>
      /\ OutFile(t) \in DOMAIN fs
      /\ fs[OutFile(t)] \in {Encoded(fs0[InFile(t)]), fs0[InFile(t)]}

\* C4: when overwrite is false no task's output path is the path of a
\* discovered input file, and at the end of the run every discovered input
\* file holds what it held at the start.
C4_InputsUntouched ==
  ~args.overwrite =>
    /\ \A t \in Submitted : \A i \in DOMAIN image_files :
         OutFile(t) # Resolve(image_files[i])
    /\ main_pc = "exit" =>
         \A i \in DOMAIN image_files :
           /\ Resolve(image_files[i]) \in DOMAIN fs
           /\ fs[Resolve(image_files[i])] = fs0[Resolve(image_files[i])]

\* A step in which task t reads its input file: the decode of lines 35-43,
\* the size query of line 49, the copy of line 57.
ReadsInput(t) ==
  /\ t \in Submitted
  /\ tasks[t].pc \in {"open", "size_in", "copy"}
  /\ tasks'[t].pc # tasks[t].pc

\* C5: in overwrite mode every read of the input file by a task, the decode
\* and the measurement of the original size included, comes before the
\* task's first write to that path.
C5_ReadsBeforeWrite ==
  [][\A t \in TaskIds : (args.overwrite /\ ReadsInput(t)) => ~tasks[t].wrote]_vars

\* The sums of the sizes of the successful outcomes of a results list.
RECURSIVE SumOriginal(_)
SumOriginal(rs) ==
  IF rs = <<>> THEN 0
  ELSE (IF Head(rs).success THEN Head(rs).original ELSE 0) + SumOriginal(Tail(rs))
RECURSIVE SumFinal(_)
SumFinal(rs) ==
  IF rs = <<>> THEN 0
  ELSE (IF Head(rs).success THEN Head(rs).final ELSE 0) + SumFinal(Tail(rs))

\* C6: when compress_images_concurrent returns, total_original_size is the
\* sum of the original sizes of the successful outcomes and
\* total_compressed_size the sum of their final sizes; each successful
\* outcome carries the sizes its task returned, a failed one adds nothing.
C6_TotalsAreSums ==
  main_pc = "returned" =>
    /\ total_original_size = SumOriginal(results)
    /\ total_compressed_size = SumFinal(results)
    /\ \A t \in Submitted : \A j \in OutcomesFor(image_path(t)) :
         results[j].success =>
           /\ results[j].original = tasks[t].result.original
           /\ results[j].final = tasks[t].result.final

\* C6 witness: a run with a failed outcome and a successful one whose final
\* size differs from its original size.
C6_Witness ==
  /\ main_pc = "returned"
  /\ \E j \in DOMAIN results : ~results[j].success
  /\ \E j \in DOMAIN results :
       results[j].success /\ results[j].final # results[j].original
  /\ total_original_size > total_compressed_size

\* C7: the final summary of a run is the same for every pool size and every
\* interleaving: it is the summary of the run of the same files, with the
\* same arguments, by a pool of one worker.
C7_SummaryIndependentOfSchedule ==
  (main_pc = "exit" /\ image_files # <<>>) =>
    summary \in SequentialSummaries(fs0, image_files, args)

\* C8: an error raised in a task becomes an outcome with success=false and
\* stops nothing: while a run with a raised error is not over some step can
\* be taken, and when the coordinator returns every task has completed and
\* has exactly one recorded outcome, a failed one for each task that raised.
C8_FailureIsolated ==
  (\E t \in Submitted : tasks[t].raised) =>
    /\ main_pc # "exit" => ENABLED Next
    /\ main_pc = "returned" =>
         \A t \in 1..Len(image_files) :
           /\ Done(t)
           /\ Cardinality(OutcomesFor(image_path(t))) = 1
           /\ \A j \in OutcomesFor(image_path(t)) :
                results[j].success = ~tasks[t].raised

\* C8 witness: a run returned in which one task raised while another was in
\* flight or queued, and the other succeeded.
C8_Witness ==
  /\ main_pc = "returned"
  /\ \E t, u \in Submitted :
       /\ tasks[t].raised
       /\ ~tasks[u].raised
       /\ \E j \in OutcomesFor(image_path(u)) : results[j].success
       /\ \E j, k \in DOMAIN results :
            j < k /\ results[j].path = image_path(t) /\ results[k].path = image_path(u)

\* C9: when the input directory does not exist the process ends with exit
\* code 1, no task is ever scheduled, no directory is created and no file
\* is written.
C9_MissingInputDirectory ==
  ~InputExisted =>
    /\ main_pc \in {"check", "exit"}
    /\ main_pc = "exit" => exit_code = 1
    /\ tasks = <<>> /\ future_to_path = <<>>
    /\ fs = fs0 /\ dirs = dirs0

\* C9 witness: the process has exited on a missing input directory.
C9_Witness == ~InputExisted /\ main_pc = "exit" /\ exit_code = 1

\* The tasks inside a print block.
Printing == {t \in Submitted : tasks[t].pc \in {"ok_print", "skip_print", "fail_print"}}

\* C10: at every moment at most one thread is inside a print block guarded
\* by print_lock, and it is the thread that holds the lock.
C10_PrintBlocksExclusive ==
  /\ Cardinality(Printing) <= 1
  /\ \A t \in Printing : print_lock = t

\* C10 witness: one task inside its print block while another waits for the
\* lock.
C10_Witness ==
  \E t, u \in Submitted :
    /\ t \in Printing
    /\ t # u
    /\ tasks[u].pc \in {"ok_lock", "skip_lock", "fail_lock"}


\* The final summary has been printed (lines 221-226).
SummaryPrinted == main_pc = "exit" /\ exit_code = 0 /\ image_files # <<>>
\* The input directory holds at least one file discovery matches.
HasImageFiles ==
  \E p \in DOMAIN fs0 :
    /\ SubSeq(p, 1, Len(args.input)) = args.input
    /\ IsImageName(BaseName(p))
AllFailed == \A j \in DOMAIN results : ~results[j].success

\* C11: when the input directory exists and holds a matching file, and every
\* call of every task returns or raises, the run eventually prints the final
\* summary; when every task failed the summary shows 0 successes, 0
\* compressed, 0 skipped and 0 bytes in both totals, and the total count is
\* the number of files.
C11_SummaryAlwaysPrinted ==
  /\ (InputExisted /\ HasImageFiles) ~> SummaryPrinted
  /\ [](SummaryPrinted /\ AllFailed =>
          summary = [total_count |-> Len(image_files), success_count |-> 0,
                     compressed_files |-> 0, skipped_files |-> 0,
                     total_original_size |-> 0, total_compressed_size |-> 0])

\* C11 witness: the summary printed after a run of two or more tasks that
\* all failed.
C11_Witness == SummaryPrinted /\ AllFailed /\ Len(image_files) >= 2

\* The output path that mirrors a file's place under the input root given on
\* the command line.
Mirrored(path) == Join(args.output, RelPath(path, args.input))
Under(path, root) ==
  /\ Len(path) > Len(root)
  /\ SubSeq(path, 1, Len(root)) = root

\* C12: when overwrite is false, the output path of every discovered file is
\* the output root joined with the file's path relative to the input root of
\* the command line, for every input root, and so lies under the output root.
C12_OutputMirrorsInput ==
  ~args.overwrite =>
    \A t \in Submitted :
      /\ output_path(t) = Mirrored(image_path(t))
      /\ Under(OutFile(t), args.output)

\* get_image_files has returned (line 189).
Discovered ==
  \/ main_pc \in {"submit", "collect", "returned"}
  \/ main_pc = "exit" /\ exit_code = 0
\* The file names of the trees whose extension, lowercased, is one of jpg,
\* jpeg, png, bmp, tiff, webp.
AllowedNames == {"a.jpg", "b.PNG"}
Range(s) == {s[i] : i \in DOMAIN s}

\* C13: discovery returns exactly the files under the root whose extension,
\* lowercased, is allowed: upper-case extensions are included, other
\* extensions are excluded, and each matching file is listed once.
C13_DiscoveryExact ==
  Discovered =>
    /\ Range(image_files) =
         {p \in DOMAIN fs0 : Under(p, args.input) /\ BaseName(p) \in AllowedNames}
    /\ \A i, j \in DOMAIN image_files : image_files[i] = image_files[j] => i = j

\* C13 witness: a discovery that lists a file with an upper-case extension
\* and a file of a sub-directory, and leaves out a text file.
C13_Witness ==
  /\ Discovered
  /\ <<"images", "b.PNG">> \in Range(image_files)
  /\ <<"images", "compressed", "a.jpg">> \in Range(image_files)
  /\ <<"images", "n.txt">> \in DOMAIN fs0 \ Range(image_files)

\* The image at a task's input path before the run decodes and encodes
\* without error.
DecodesAndEncodes(t) ==
  /\ InFile(t) \in DOMAIN fs0
  /\ fs0[InFile(t)].kind = "ok"

\* C14: in overwrite mode with a threshold >= 0, a task whose image decodes
\* and encodes without error ends with success and leaves at the input path
\* a file holding the re-encoded bytes or the original bytes.
C14_OverwriteLeavesAFile ==
  args.overwrite /\ args.min_compression >= 0 =>
    \A t \in Submitted :
      Done(t) /\ DecodesAndEncodes(t) =>
        /\ tasks[t].result.success
        /\ InFile(t) \in DOMAIN fs
        /\ fs[InFile(t)] \in {Encoded(fs0[InFile(t)]), fs0[InFile(t)]}

\* C15: in every reachable state at most workers tasks are executing
\* compress_image, and a task leaves the queue only when fewer than workers
\* tasks are executing.
C15_PoolBounded ==
  /\ [](Cardinality(Running) <= args.workers)
  /\ [][\A t \in Queued :
          tasks'[t].pc # "queued" => Cardinality(Running) < args.workers]_vars

\* C15 witness: both workers of a pool of two are busy while a third task
\* waits in the queue.
C15_Witness ==
  /\ args.workers = 2
  /\ Cardinality(Running) = 2
  /\ Queued # {}

\* img.save of line 46 returned without raising in task t.
EncodedWithoutError(t) == tasks[t].img.kind = "ok" /\ tasks[t].wrote

\* The output path of task t is the input path of no task of the run.
OutputApart(t) == \A i \in DOMAIN image_files : Resolve(image_files[i]) # OutFile(t)

\* C16: with min-compression 0 every file is compressed, even when the
\* compressed file is larger: a task that encoded without error reports the
\* encoded size and its output path holds the encoded file.  Stated for the
\* tasks whose output path no task reads.
C16_ZeroThresholdKeepsAll ==
  args.min_compression = 0 =>
    \A t \in Submitted :
      Done(t) /\ EncodedWithoutError(t) /\ OutputApart(t) =>
        /\ tasks[t].result.success
        /\ tasks[t].result.final = tasks[t].compressed_size
        /\ OutFile(t) \in DOMAIN fs
        /\ fs[OutFile(t)].enc

\* Task t has printed its report block: the block is printed inside
\* compress_image, right before it returns.
Printed(t) == Done(t)
InPrintBlock(t) == tasks[t].pc \in {"ok_print", "skip_print", "fail_print"}
CoordinatorReturned == main_pc \in {"returned", "exit"} /\ image_files # <<>>

\* C17: a task's block is printed before the coordinator records the task's
\* outcome and before the final summary; a task inside its block finishes
\* printing whatever the coordinator has or has not collected.
C17_PrintedAsCompleted ==
  /\ \A t \in collected : Printed(t)
  /\ CoordinatorReturned => \A t \in TaskIds : Printed(t)
  /\ \A t \in Submitted : InPrintBlock(t) => ENABLED PrintAndReturn(t)

\* C17 witness: one task's block is printed and its outcome not yet
\* recorded, another task's outcome is recorded, a third task is still at
\* work.
C17_Witness ==
  /\ \E t \in Submitted : Printed(t) /\ t \notin collected
  /\ collected # {}
  /\ Running # {}

\* The number of tasks whose ratio the threshold rejected.
RejectedCount == Cardinality({t \in Submitted : RejectedBy(t)})

\* C18: in the final summary compressed + skipped = success for every value
\* of min-compression, and the skipped count is the number of outcomes the
\* threshold rejected.  Stated for the runs in which no task's output path
\* is a task's input path.
C18_CountsPartitionSuccesses ==
  SummaryPrinted /\ (\A t \in Submitted : OutputApart(t)) =>
    /\ summary.compressed_files + summary.skipped_files = summary.success_count
    /\ summary.skipped_files = RejectedCount

\* A task that returned success with its encoding kept.
KeptBy(t) == Done(t) /\ tasks[t].result.success /\ ~RejectedBy(t)

====
